---- MODULE Spec2Model ----
(***************************************************************************)
(* Model of the BAN address database importer (ban/commands/init.py) and   *)
(* of the HTTP resources over it (ban/http/resources.py).                  *)
(*                                                                         *)
(* Python strings are TLA+ strings (TLC evaluates Len, SubSeq and \o on    *)
(* them).  A JSON row is a function from its keys to its values: a key     *)
(* that the row does not carry is outside its DOMAIN.  Python's None is    *)
(* the value None below; a model instance that does not exist is           *)
(* NoInstance.  A query string or route value that int() reads is the      *)
(* sequence of its code points.                                            *)
(***************************************************************************)
EXTENDS Naturals, Integers, Sequences, FiniteSets, Bags, TLC

VARIABLES
    db,        \* the entity store: one table (a sequence of rows) per model
    pc,        \* per import worker: "idle", "lookup", "find" or "save"
    cur,       \* per import worker: the row process_row is running on
    pending,   \* per import worker: what the handler holds between lookup and save
    out,       \* per import worker: how process_row ended for cur
    lost,      \* per import worker: the row whose save it lost to another writer,
               \* and the entity and version it had read
    fed,       \* number of rows / requests handed out so far
    req,       \* per HTTP client: its last request
    resp,      \* per HTTP client: the response to it, status 0 until answered
    hpc,       \* per HTTP client: "idle", or the store call its responder is at
    held       \* per HTTP client: what the responder holds between store calls

vars == <<db, pc, cur, pending, out, lost, fed, req, resp, hpc, held>>

----------------------------------------------------------------------------
(* Bounds of the model *)

MaxRows == 3

MaxVersion == 4

Workers == {"w1", "w2"}

Clients == {"c1", "c2"}

----------------------------------------------------------------------------
(* Python values *)

None == "<None>"

NoInstance == [id |-> 0]

Min(a, b) == IF a < b THEN a ELSE b

\* s[a:b] for 0 <= a, 0 <= b
Slice(s, a, b) == SubSeq(s, Min(a, Len(s)) + 1, Min(b, Len(s)))

\* s[a:]
SliceFrom(s, a) == SubSeq(s, Min(a, Len(s)) + 1, Len(s))

Max(a, b) == IF a > b THEN a ELSE b

\* where the bound i of a slice falls in a sequence of n items
SliceBound(i, n) == IF i < 0 THEN Max(i + n, 0) ELSE Min(i, n)

\* seq[a:b] for any integers a, b
PySlice(seq, a, b) ==
    SubSeq(seq, SliceBound(a, Len(seq)) + 1, SliceBound(b, Len(seq)))

\* A str that int() reads is the sequence of its code points: "-12" is
\* <<45, 49, 50>>.

\* the code point of the digit zero of every script with decimal digits,
\* the nine digits after it following in order: 48 is "0", 1632 the
\* Arabic-Indic zero, 65296 the fullwidth zero
DecimalDigits ==
    {
     48, 1632, 1776, 1984, 2406, 2534, 2662, 2790,
     2918, 3046, 3174, 3302, 3430, 3558, 3664, 3792,
     3872, 4160, 4240, 6112, 6160, 6470, 6608, 6784,
     6800, 6992, 7088, 7232, 7248, 42528, 43216, 43264,
     43472, 43504, 43600, 44016, 65296, 66720, 68912, 69734,
     69872, 69942, 70096, 70384, 70736, 70864, 71248, 71360,
     71472, 71904, 72016, 72784, 73040, 73120, 92768, 92864,
     93008, 120782, 120792, 120802, 120812, 120822, 123200, 123632,
     125264, 130032 }

\* the value of the decimal digit c, -1 for any other character
DigitValue(c) ==
    LET zeros == {z \in DecimalDigits : z <= c /\ c <= z + 9}
    IN  IF zeros = {} THEN -1 ELSE c - (CHOOSE z \in zeros : TRUE)

\* the whitespace int() skips around a number: tab, line feed, vertical tab,
\* form feed, carriage return, space, U+0085, U+00A0, U+1680, U+2000 to
\* U+200A, U+2028, U+2029, U+202F, U+205F and U+3000
Whitespace ==
    {9, 10, 11, 12, 13, 32, 133, 160, 5760} \cup (8192..8202)
        \cup {8232, 8233, 8239, 8287, 12288}

RECURSIVE lstrip(_)
\* s without the whitespace int() skips before the number
lstrip(s) ==
    IF s # <<>> /\ Head(s) \in Whitespace THEN lstrip(Tail(s)) ELSE s

RECURSIVE rstrip(_)
\* s without the whitespace int() skips after the number
rstrip(s) ==
    IF s # <<>> /\ s[Len(s)] \in Whitespace
    THEN rstrip(SubSeq(s, 1, Len(s) - 1))
    ELSE s

\* "_", "+" and "-"
Underscore == 95

PlusSign == 43

MinusSign == 45

RECURSIVE DigitsValue(_, _, _)
\* the number written by s after the number acc: digits, with single "_"
\* between two of them; -1 if s is not of that form.  last is what came
\* before s: "", "digit" or "_"
DigitsValue(s, acc, last) ==
    IF s = <<>> THEN (IF last = "digit" THEN acc ELSE -1)
    ELSE LET c == Head(s)
             v == DigitValue(c)
         IN  IF c = Underscore
             THEN (IF last = "digit" THEN DigitsValue(Tail(s), acc, "_")
                   ELSE -1)
             ELSE IF v < 0 THEN -1
             ELSE DigitsValue(Tail(s), 10 * acc + v, "digit")

ValueError == [ok |-> FALSE, exc |-> "ValueError"]

IntValue(n) == [ok |-> TRUE, value |-> n]

\* sys.get_int_max_str_digits(): the longest digit string int() converts
int_max_str_digits == 4300

\* int(v) for a str v
int(v) ==
    LET text == rstrip(lstrip(v))
        signed == text # <<>> /\ Head(text) \in {PlusSign, MinusSign}
        digits == IF signed THEN Tail(text) ELSE text
        n == DigitsValue(digits, 0, "")
        \* the digits, leading zeros among them; "_" is not counted
        count == Cardinality({i \in 1..Len(digits) : digits[i] # Underscore})
    \* 'Exceeds the limit (4300 digits) for integer string conversion'
    IN  IF count > int_max_str_digits THEN ValueError
        ELSE IF n < 0 THEN ValueError
        ELSE IntValue(IF signed /\ Head(text) = MinusSign THEN 0 - n ELSE n)

\* row.get(key)
Get(row, key) == IF key \in DOMAIN row THEN row[key] ELSE None

\* '{}'.format(v)
Format(v) == IF v = None THEN "None" ELSE v

\* the row after row.pop(key)
Pop(row, key) == [k \in DOMAIN row \ {key} |-> row[k]]

\* the rows of a table
Table(table) == {table[i] : i \in DOMAIN table}

\* Model.first(predicate): of the rows that match, the first one, or nothing
First(hits) ==
    IF hits = {} THEN NoInstance
    ELSE CHOOSE e \in hits : \A f \in hits : e.id <= f.id

Exists(instance) == instance.id # 0

----------------------------------------------------------------------------
(* reporter and exceptions: how a handler ends *)

\* what a call wrote: the model, the row's id and the version written
NoSave == [model |-> "none", id |-> 0, version |-> 0]

SavedAs(model, e) == [model |-> model, id |-> e.id, version |-> e.version]

\* reporter.<level>(msg, ...)
Report(level, msg) == [level |-> level, msg |-> msg, saved |-> NoSave]

\* reporter.<level>(msg, detail), where the detail is looked at
ReportDetail(level, msg, detail) ==
    [level |-> level, msg |-> msg, saved |-> NoSave, detail |-> detail]

\* an exception that leaves process_row
Raise(exc) == [level |-> "raise", msg |-> exc, saved |-> NoSave]

NoOutcome == [level |-> "none", msg |-> "", saved |-> NoSave]

----------------------------------------------------------------------------
(* Identifier codec *)

\* '{}{}'.format(fantoir[:5], fantoir[6:10])
deriveFantoir(raw) == Slice(raw, 0, 5) \o Slice(raw, 6, 10)

\* ban.utils.compute_cia: the composite key over its four inputs, an absent
\* ordinal leaving no segment
compute_cia(insee, code, number, ordinal) ==
    insee \o "_" \o code \o "_" \o Format(number)
          \o (IF ordinal = None THEN "" ELSE "_" \o ordinal)

\* cia[:10] + cia[11:]
stripControlChar(cia) == Slice(cia, 0, 10) \o SliceFrom(cia, 11)

----------------------------------------------------------------------------
(* Entity store (ban.core.models) *)

EmptyDb ==
    [municipality |-> <<>>, group |-> <<>>, postcode |-> <<>>,
     housenumber |-> <<>>, position |-> <<>>, versions |-> EmptyBag]

\* Position.OTHER
PositionOTHER == "other"

\* the identity under which a row's versions are counted
Identity(d, model, e) ==
    CASE model = "municipality" -> e.insee
      [] model = "group"        -> e.fantoir
      [] model = "postcode"     -> e.code \o "|" \o Format(e.name)
      [] model = "housenumber"  -> e.cia
      [] model = "position"     ->
            d.housenumber[e.housenumber].cia
                \o "|" \o Format(e.kind) \o "|" \o Format(e.source)

\* the natural-key columns that carry a unique constraint
UniqueKeyTaken(d, model, e) ==
    CASE model = "municipality" ->
            \E i \in 1..Len(d.municipality) : d.municipality[i].insee = e.insee
      [] model = "group" ->
            \E i \in 1..Len(d.group) : d.group[i].fantoir = e.fantoir
      [] model = "housenumber" ->
            \E i \in 1..Len(d.housenumber) : d.housenumber[i].cia = e.cia
      [] OTHER -> FALSE

Saved(d, e) == [ok |-> TRUE, db |-> d, exc |-> "", instance |-> e]

Refused(d, exc) == [ok |-> FALSE, db |-> d, exc |-> exc, instance |-> NoInstance]

\* the stored version must be the one the writer observed
VersionAccepted(stored, proposed) == proposed = stored + 1

\* Model.save of a new row: the unique constraint, then the insert and its
\* version record
Insert(d, model, e) ==
    IF UniqueKeyTaken(d, model, e) THEN Refused(d, "IntegrityError")
    ELSE IF ~VersionAccepted(0, e.version) THEN Refused(d, "ForcedVersionError")
    ELSE LET row == [e EXCEPT !.id = Len(d[model]) + 1]
         IN  Saved([d EXCEPT ![model] = Append(@, row),
                             !.versions = @ (+) SetToBag({<<model, Identity(d, model, row), row.version>>})],
                   row)

\* Model.save of an existing row: compare-and-swap on the stored version
Update(d, model, instance, e) ==
    LET stored == d[model][instance.id]
        row == [e EXCEPT !.id = instance.id]
    IN  IF ~VersionAccepted(stored.version, e.version)
        THEN Refused(d, "ForcedVersionError")
        ELSE Saved([d EXCEPT ![model][instance.id] = row,
                             !.versions = @ (+) SetToBag({<<model, Identity(d, model, row), row.version>>})],
                   row)

\* validator.save()
Save(d, model, instance, e) ==
    IF Exists(instance) THEN Update(d, model, instance, e) ELSE Insert(d, model, e)

\* 'insee:<code>' resolved to a Municipality
ResolvesMunicipality(d, ref) ==
    \E i \in 1..Len(d.municipality) : "insee:" \o d.municipality[i].insee = ref

\* 'fantoir:<code>' resolved to a Group
ResolveGroup(d, ref) ==
    First({g \in Table(d.group) : "fantoir:" \o g.fantoir = ref})

----------------------------------------------------------------------------
(* Validators (ban.core.validators): the set of fields in error *)

Required(data, fields) == {f \in fields : Get(data, f) = None}

\* the fields of a Municipality among the arguments of its validator, the
\* version of a new row being 1 unless the arguments carry one
MunicipalityFields(data) ==
    [id |-> 0, insee |-> Get(data, "insee"), siren |-> Get(data, "siren"),
     name |-> Get(data, "name"), attributes |-> data.attributes,
     version |-> IF "version" \in DOMAIN data THEN data["version"] ELSE 1]

MunicipalityErrors(d, data) == Required(data, {"insee", "name"})

GroupErrors(d, data) ==
    Required(data, {"name", "kind"})
        \cup (IF ResolvesMunicipality(d, data.municipality) THEN {} ELSE {"municipality"})

PostCodeErrors(d, data) ==
    Required(data, {"name", "code"})
        \cup (IF ResolvesMunicipality(d, data.municipality) THEN {} ELSE {"municipality"})

HouseNumberErrors(d, data) ==
    Required(data, {"number"})
        \cup (IF Exists(ResolveGroup(d, data.parent)) THEN {} ELSE {"parent"})

PositionErrors(d, data) == Required(data, {"kind", "center"})

----------------------------------------------------------------------------
(* Import handlers.  Each handler is cut where it has read the store and   *)
(* not yet written it: the part up to there returns Done(outcome) or       *)
(* Hold(what it carries on), the rest takes the store and returns the new  *)
(* store and the outcome.                                                  *)

NoPending == [model |-> "none"]

\* the handler has returned
Done(outcome) ==
    [done |-> TRUE, next |-> "idle", out |-> outcome, pend |-> NoPending]

\* the handler stands before its validator
Hold(model, instance, update, data) ==
    [done |-> FALSE, next |-> "save", out |-> NoOutcome,
     pend |-> [model |-> model, instance |-> instance, update |-> update, data |-> data]]

\* the handler stands before its second read of the store, with the
\* housenumber its first read has found
Found(model, housenumber) ==
    [done |-> FALSE, next |-> "find", out |-> NoOutcome,
     pend |-> [model |-> model, housenumber |-> housenumber]]

Ended(d, outcome) == [db |-> d, out |-> outcome]

\* validator.errors / validator.save() / reporter, common to the handlers
ValidateAndSave(d, p, errors, errmsg, okmsg) ==
    IF errors # {} THEN Ended(d, Report("error", errmsg))
    ELSE LET r == Save(d, p.model, p.instance, p.data)
         IN  IF r.ok
             THEN Ended(r.db, [Report("notice", okmsg) EXCEPT
                                   !.saved = SavedAs(p.model, r.instance)])
             ELSE Ended(d, Raise(r.exc))

\* the row as Municipality.validator(**row) gets it
process_municipality_begin(row, d) ==
    IF "source" \notin DOMAIN row \/ "insee" \notin DOMAIN row
    THEN Done(Raise("KeyError"))
    \* '2101' + None
    ELSE IF row["insee"] = None THEN Done(Raise("TypeError"))
    ELSE Hold("municipality", NoInstance, FALSE,
              [attributes |-> [source |-> row["source"]],
               siren |-> "2101" \o row["insee"]] @@ Pop(row, "source"))

process_municipality_end(p, d) ==
    LET q == [p EXCEPT !.data = MunicipalityFields(p.data)]
    IN  ValidateAndSave(d, q, MunicipalityErrors(d, q.data),
                        "Municipality errors", "Imported Municipality")

\* process_group without the comparison of the sources
process_group_begin_always_update(row, d) ==
    IF Get(row, "group:fantoir") = None THEN Done(Raise("TypeError"))
    ELSE
    LET municipality == "insee:" \o Format(Get(row, "municipality:insee"))
        fantoir == deriveFantoir(row["group:fantoir"])
        data == [id |-> 0, name |-> Get(row, "name"), fantoir |-> fantoir,
                 municipality |-> municipality, kind |-> Get(row, "group"),
                 version |-> 1, attributes |-> [source |-> Get(row, "source")]]
        instance == ResolveGroup(d, "fantoir:" \o fantoir)
    IN  IF ~Exists(instance) THEN Hold("group", NoInstance, FALSE, data)
        ELSE Hold("group", instance, TRUE,
                  [data EXCEPT !.version = instance.version + 1])

\* process_group proposing the stored version again
process_group_begin_same_version(row, d) ==
    IF Get(row, "group:fantoir") = None THEN Done(Raise("TypeError"))
    ELSE
    LET municipality == "insee:" \o Format(Get(row, "municipality:insee"))
        fantoir == deriveFantoir(row["group:fantoir"])
        source == Get(row, "source")
        data == [id |-> 0, name |-> Get(row, "name"), fantoir |-> fantoir,
                 municipality |-> municipality, kind |-> Get(row, "group"),
                 version |-> 1, attributes |-> [source |-> source]]
        instance == ResolveGroup(d, "fantoir:" \o fantoir)
    IN  IF ~Exists(instance) THEN Hold("group", NoInstance, FALSE, data)
        ELSE IF instance.attributes.source = source
        THEN Done(Report("warning", "Group already exist"))
        ELSE Hold("group", instance, TRUE,
                  [data EXCEPT !.version = instance.version])

\* process_group skipping every row whose fantoir is stored
process_group_begin_skip_known(row, d) ==
    IF Get(row, "group:fantoir") = None THEN Done(Raise("TypeError"))
    ELSE
    LET municipality == "insee:" \o Format(Get(row, "municipality:insee"))
        fantoir == deriveFantoir(row["group:fantoir"])
        data == [id |-> 0, name |-> Get(row, "name"), fantoir |-> fantoir,
                 municipality |-> municipality, kind |-> Get(row, "group"),
                 version |-> 1, attributes |-> [source |-> Get(row, "source")]]
        instance == ResolveGroup(d, "fantoir:" \o fantoir)
    IN  IF ~Exists(instance) THEN Hold("group", NoInstance, FALSE, data)
        ELSE Done(Report("warning", "Group already exist"))

process_group_begin(row, d) ==
    IF Get(row, "group:fantoir") = None THEN Done(Raise("TypeError"))
    ELSE
    LET municipality == "insee:" \o Format(Get(row, "municipality:insee"))
        fantoir == deriveFantoir(row["group:fantoir"])
        source == Get(row, "source")
        data == [id |-> 0, name |-> Get(row, "name"), fantoir |-> fantoir,
                 municipality |-> municipality, kind |-> Get(row, "group"),
                 version |-> 1, attributes |-> [source |-> source]]
        instance == ResolveGroup(d, "fantoir:" \o fantoir)
    IN  IF ~Exists(instance) THEN Hold("group", NoInstance, FALSE, data)
        ELSE IF instance.attributes.source = source
        THEN Done(Report("warning", "Group already exist"))
        ELSE Hold("group", instance, TRUE,
                  [data EXCEPT !.version = instance.version + 1])

process_group_end(p, d) ==
    ValidateAndSave(d, p, GroupErrors(d, p.data),
                    "Invalid group data", "Created group")

\* process_postcode without the look for a stored pair
process_postcode_begin_no_check(row, d) ==
    Hold("postcode", NoInstance, FALSE,
         [id |-> 0, name |-> Get(row, "name"), code |-> Get(row, "postcode"),
          municipality |-> "insee:" \o Format(Get(row, "municipality:insee")),
          version |-> 1])

process_postcode_begin(row, d) ==
    LET municipality == "insee:" \o Format(Get(row, "municipality:insee"))
        name == Get(row, "name")
        code == Get(row, "postcode")
        data == [id |-> 0, name |-> name, code |-> code,
                 municipality |-> municipality, version |-> 1]
        instance == First({e \in Table(d.postcode) : e.code = code /\ e.name = name})
    IN  IF Exists(instance) THEN Done(Report("notice", "PostCode already exists"))
        ELSE Hold("postcode", NoInstance, FALSE, data)

process_postcode_end(p, d) ==
    ValidateAndSave(d, p, PostCodeErrors(d, p.data),
                    "PostCode errors", "Imported PostCode")

\* HouseNumber.save derives the stored cia from the parent group
HouseNumberCia(parent, number, ordinal) ==
    compute_cia(Slice(parent, 0, 5), SliceFrom(parent, 5), number, ordinal)

\* the fields of a HouseNumber, with the cia column that HouseNumber.save fills
HouseNumberData(number, ordinal, fantoir, version) ==
    [id |-> 0, number |-> number, ordinal |-> ordinal, version |-> version,
     parent |-> "fantoir:" \o fantoir,
     cia |-> HouseNumberCia(fantoir, number, ordinal)]

\* process_housenumber with the skip of a known cia, as in its commented lines
process_housenumber_begin_dedup(row, d) ==
    IF Get(row, "group:fantoir") = None THEN Done(Raise("TypeError"))
    ELSE
    LET number == Get(row, "numero")
        ordinal == IF Get(row, "ordinal") = "" THEN None ELSE Get(row, "ordinal")
        raw_fantoir == row["group:fantoir"]
        cia == compute_cia(Slice(raw_fantoir, 0, 5), Slice(raw_fantoir, 6, 10),
                           number, ordinal)
        instance == First({e \in Table(d.housenumber) : e.cia = cia})
    IN  IF Exists(instance)
        THEN Done(Report("warning", "HouseNumber already exists"))
        ELSE Hold("housenumber", NoInstance, FALSE,
                  HouseNumberData(number, ordinal, deriveFantoir(raw_fantoir), 1))

process_housenumber_begin(row, d) ==
    IF Get(row, "group:fantoir") = None THEN Done(Raise("TypeError"))
    ELSE
    LET number == Get(row, "numero")
        ordinal == IF Get(row, "ordinal") = "" THEN None ELSE Get(row, "ordinal")
        raw_fantoir == row["group:fantoir"]
        insee == Slice(raw_fantoir, 0, 5)
        fantoir == deriveFantoir(raw_fantoir)
        cia == compute_cia(insee, Slice(raw_fantoir, 6, 10), number, ordinal)
        data == HouseNumberData(number, ordinal, fantoir, 1)
        instance == First({e \in Table(d.housenumber) : e.cia = cia})
    IN  IF Exists(instance)
        THEN Hold("housenumber", instance, TRUE,
                  [data EXCEPT !.version = instance.version + 1])
        ELSE Hold("housenumber", NoInstance, FALSE, data)

\* process_housenumber saving without looking at validator.errors
process_housenumber_end_unchecked(p, d) ==
    ValidateAndSave(d, p, {}, "HouseNumber errors",
                    IF Exists(p.instance) THEN "HouseNumber Updated"
                    ELSE "HouseNumber created")

process_housenumber_end(p, d) ==
    ValidateAndSave(d, p, HouseNumberErrors(d, p.data), "HouseNumber errors",
                    IF Exists(p.instance) THEN "HouseNumber Updated"
                    ELSE "HouseNumber created")

\* process_position reporting the key as the row carries it
process_position_begin_raw_cia(row, d) ==
    IF Get(row, "housenumber:cia") = None THEN Done(Raise("TypeError"))
    ELSE
    LET cia == stripControlChar(row["housenumber:cia"])
        housenumber == First({e \in Table(d.housenumber) : e.cia = cia})
    IN  IF ~Exists(housenumber)
        THEN Done(ReportDetail("error", "Position housenumber does not exist",
                               row["housenumber:cia"]))
        ELSE Found("position", housenumber)

\* process_position up to and including HouseNumber.first
process_position_begin(row, d) ==
    IF Get(row, "housenumber:cia") = None THEN Done(Raise("TypeError"))
    ELSE
    LET cia == stripControlChar(row["housenumber:cia"])
        housenumber == First({e \in Table(d.housenumber) : e.cia = cia})
    IN  IF ~Exists(housenumber)
        THEN Done(ReportDetail("error", "Position housenumber does not exist", cia))
        ELSE Found("position", housenumber)

\* process_position looking the Position up by housenumber and kind alone
process_position_find_no_source(row, p, d) ==
    LET kind == Get(row, "kind")
        instance == First({e \in Table(d.position) :
                              e.housenumber = p.housenumber.id /\ e.kind = kind})
        version == IF Exists(instance) THEN instance.version + 1 ELSE 1
    IN  Hold("position", instance, FALSE,
             [id |-> 0, kind |-> kind, source |-> Get(row, "source"),
              housenumber |-> p.housenumber.id, center |-> Get(row, "geometry"),
              positioning |-> PositionOTHER, version |-> version])

\* process_position from Position.first, on the housenumber p holds, up to
\* the validator
process_position_find(row, p, d) ==
    LET kind == Get(row, "kind")
        source == Get(row, "source")
        center == Get(row, "geometry")
        housenumber == p.housenumber
        instance == First({e \in Table(d.position) :
                              /\ e.housenumber = housenumber.id
                              /\ e.kind = kind
                              /\ e.source = source})
        version == IF Exists(instance) THEN instance.version + 1 ELSE 1
    IN  Hold("position", instance, FALSE,
             [id |-> 0, kind |-> kind, source |-> source,
              housenumber |-> housenumber.id, center |-> center,
              positioning |-> PositionOTHER, version |-> version])

process_position_end(p, d) ==
    ValidateAndSave(d, p, PositionErrors(d, p.data), "Position error",
                    IF Exists(p.instance) THEN "Position updated"
                    ELSE "Position created")

\* not kind
Falsy(v) == v = None \/ v = ""

process_row(row, d) ==
    IF "type" \notin DOMAIN row THEN Done(Raise("KeyError"))
    ELSE LET kind == row["type"]
             rest == Pop(row, "type")
         IN  IF Falsy(kind) THEN Done(Report("error", "Missing \"type\" key"))
             ELSE CASE kind = "municipality" -> process_municipality_begin(rest, d)
                    [] kind = "group"        -> process_group_begin(rest, d)
                    [] kind = "postcode"     -> process_postcode_begin(rest, d)
                    [] kind = "housenumber"  -> process_housenumber_begin(rest, d)
                    [] kind = "position"     -> process_position_begin(rest, d)
                    [] OTHER                 -> Done(NoOutcome)

\* process_row from the handler's validator on
process_row_end(p, d) ==
    CASE p.model = "municipality" -> process_municipality_end(p, d)
      [] p.model = "group"        -> process_group_end(p, d)
      [] p.model = "postcode"     -> process_postcode_end(p, d)
      [] p.model = "housenumber"  -> process_housenumber_end(p, d)
      [] p.model = "position"     -> process_position_end(p, d)

\* process_row from the handler's second read of the store to its validator
process_row_find(row, p, d) == process_position_find(Pop(row, "type"), p, d)

\* process_row run alone, from start to end
Import(d, row) ==
    LET b == process_row(row, d)
        f == IF b.next = "find" THEN process_row_find(row, b.pend, d) ELSE b
    IN  IF f.done THEN d ELSE process_row_end(f.pend, d).db

----------------------------------------------------------------------------
(* HTTP resources (ban/http/resources.py).  A responder is cut at its      *)
(* store calls: each piece below runs up to and including one of them and  *)
(* either answers or names the piece that comes next and what it holds.    *)

\* the model attribute of each resource class: the table its rows are in
model(resource) ==
    CASE resource \in {"locality", "street"} -> "group"
      [] OTHER                               -> resource

\* the identifiers attribute of each resource class
identifiers(resource) ==
    CASE resource = "housenumber"                    -> {"cia"}
      [] resource = "municipality"                   -> {"siren", "insee"}
      [] resource \in {"locality", "street", "group"} -> {"fantoir"}
      [] OTHER                                       -> {}

\* what a request holds between two store calls: the instance it has read
\* and the count of its listing
Held(instance, count) == [instance |-> instance, count |-> count]

NoHeld == Held(NoInstance, 0)

\* the responder has answered
Response(d, status, body) ==
    [db |-> d, resp |-> [status |-> status, body |-> body], pc |-> "idle",
     held |-> NoHeld]

\* resp.json(errors=validator.errors) with status 422
Unprocessable(d, errors) ==
    [db |-> d, resp |-> [status |-> 422, errors |-> errors], pc |-> "idle",
     held |-> NoHeld]

\* the responder goes on with its next store call
Goes(d, stage, kept) ==
    [db |-> d, resp |-> [status |-> 0], pc |-> stage, held |-> kept]

\* raise falcon.HTTPNotFound()
HTTPNotFound(d) == Response(d, 404, NoInstance)

\* raise falcon.HTTPBadRequest(msg, msg)
HTTPBadRequest(d) == Response(d, 400, NoInstance)

\* an exception no handler catches
ServerError(d) == Response(d, 500, NoInstance)

\* self.model.get(getattr(self.model, identifier) == id), or nothing
get_object(d, resource, identifier, id) ==
    First({e \in Table(d[model(resource)]) : e[identifier] = id})

\* the columns getattr(self.model, identifier) finds
HasColumn(d, resource, identifier) ==
    identifier \in
        CASE model(resource) = "housenumber" ->
                {"id", "cia", "number", "ordinal", "parent", "version"}
          [] model(resource) = "municipality" ->
                {"id", "insee", "siren", "name", "version"}
          [] model(resource) = "position" ->
                {"id", "kind", "source", "housenumber", "center", "positioning",
                 "version"}
          [] model(resource) = "group" ->
                {"id", "fantoir", "name", "kind", "municipality", "version"}
          [] OTHER -> {"id"}

\* self.model.validator(**data).errors
ValidatorErrors(d, resource, data) ==
    CASE model(resource) = "housenumber"  -> HouseNumberErrors(d, data)
      [] model(resource) = "municipality" -> MunicipalityErrors(d, data)
      [] model(resource) = "position"     -> PositionErrors(d, data)
      [] model(resource) = "group"        -> GroupErrors(d, data)
      [] model(resource) = "postcode"     -> PostCodeErrors(d, data)

\* save_object answering a refused save like a saved one
save_object_no_conflict(d, resource, data, instance, hasId, identifier, id) ==
    LET errors == ValidatorErrors(d, resource, data)
        r == Save(d, model(resource), instance, data)
    IN  IF errors # {} THEN Unprocessable(d, errors)
        ELSE IF r.ok THEN Response(r.db, IF hasId THEN 200 ELSE 201, r.instance)
        ELSE Response(d, IF hasId THEN 200 ELSE 201, instance)

\* save_object answering a refused save with the data it was sent
save_object_stale_body(d, resource, data, instance, hasId, identifier, id) ==
    LET errors == ValidatorErrors(d, resource, data)
        r == Save(d, model(resource), instance, data)
    IN  IF errors # {} THEN Unprocessable(d, errors)
        ELSE IF r.ok THEN Response(r.db, IF hasId THEN 200 ELSE 201, r.instance)
        ELSE IF r.exc # "ForcedVersionError" THEN ServerError(d)
        ELSE IF ~Exists(instance) THEN ServerError(d)
        ELSE Response(d, 409, [data EXCEPT !.id = instance.id])

\* save_object saving whatever validator.errors holds
save_object_unvalidated(d, resource, data, instance, hasId, identifier, id) ==
    LET r == Save(d, model(resource), instance, data)
    IN  IF r.ok THEN Response(r.db, IF hasId THEN 200 ELSE 201, r.instance)
        ELSE IF r.exc # "ForcedVersionError" THEN ServerError(d)
        ELSE IF ~Exists(instance) THEN ServerError(d)
        ELSE Goes(d, "reread", Held(instance, 0))

\* save_object up to and including validator.save: the answer, or on
\* ForcedVersionError the read of line 104 still to come
save_object(d, resource, data, instance, hasId, identifier, id) ==
    LET errors == ValidatorErrors(d, resource, data)
        r == Save(d, model(resource), instance, data)
    IN  IF errors # {} THEN Unprocessable(d, errors)
        ELSE IF r.ok THEN Response(r.db, IF hasId THEN 200 ELSE 201, r.instance)
        ELSE IF r.exc # "ForcedVersionError" THEN ServerError(d)
        \* except instance.ForcedVersionError, with no instance to read it from
        ELSE IF ~Exists(instance) THEN ServerError(d)
        ELSE Goes(d, "reread", Held(instance, 0))

\* the rest of save_object after ForcedVersionError: status 409 and the
\* object get_object(**kwargs) reads now
save_object_conflict(d, rq) ==
    LET instance == get_object(d, rq.resource, rq.identifier, rq.id)
    IN  IF ~Exists(instance) THEN HTTPNotFound(d)
        ELSE Response(d, 409, instance)

DEFAULT_LIMIT == 20

MAX_LIMIT == 100

\* min(int(req.params.get('limit', self.DEFAULT_LIMIT)), self.MAX_LIMIT)
get_limit(params) ==
    LET limit == IF "limit" \in DOMAIN params THEN int(params["limit"])
                 ELSE IntValue(DEFAULT_LIMIT)
    IN  IF limit.ok THEN IntValue(Min(limit.value, MAX_LIMIT)) ELSE limit

\* int(req.params.get('offset')), 0 on ValueError and on the TypeError of
\* int(None), the parameter absent
get_offset(params) ==
    IF "offset" \notin DOMAIN params THEN 0
    ELSE LET offset == int(params["offset"])
         IN  IF offset.ok THEN offset.value ELSE 0

\* collection(req, resp, queryset) up to and including queryset.count()
collection_count(d, params, queryset, instance) ==
    IF ~get_limit(params).ok THEN ServerError(d)
    ELSE Goes(d, "slice", Held(instance, Len(queryset)))

\* the rest of collection, from list(queryset[offset:end]): the page, the
\* total and the offsets of the next and the previous page where the
\* response links to them
collection(d, params, queryset, count) ==
    LET limit == get_limit(params)
        offset == get_offset(params)
        end == offset + limit.value
    IN  Response(d, 200,
                 [collection |-> PySlice(queryset, offset, end),
                  total |-> count,
                  next |-> IF count > end THEN end ELSE None,
                  previous |-> IF offset >= limit.value
                               THEN offset - limit.value ELSE None])

\* instance.versions.as_resource(): one record per stored version of the
\* instance
versions(d, resource, instance) ==
    [v \in 1..d[model(resource)][instance.id].version |->
        [id |-> instance.id, version |-> v]]

\* instance.load_version(route_id): the stored version of that number, or
\* nothing
load_version(d, resource, instance, route_id) ==
    LET n == int(route_id)
        listing == versions(d, resource, instance)
    IN  IF ~n.ok THEN ServerError(d)
        ELSE IF n.value \notin 1..Len(listing) THEN HTTPNotFound(d)
        ELSE Response(d, 200, listing[n.value])

\* instance.street_set.as_resource(): the ways of the municipality
street_set(d, instance) ==
    SelectSeq(d.group, LAMBDA g : g.municipality = "insee:" \o instance.insee
                                    /\ g.kind = "way")

\* instance.locality_set.as_resource(): its other groups
locality_set(d, instance) ==
    SelectSeq(d.group, LAMBDA g : g.municipality = "insee:" \o instance.insee
                                    /\ g.kind # "way")

\* on_get_versions up to and including its get_object
on_get_versions(d, rq) ==
    LET instance == get_object(d, rq.resource, rq.identifier, rq.id)
    IN  IF ~Exists(instance) THEN HTTPNotFound(d)
        ELSE IF "route_id" \in DOMAIN rq /\ rq.route_id # <<>>
        THEN Goes(d, "load", Held(instance, 0))
        ELSE Goes(d, "count", Held(instance, 0))

\* on_get_streets and on_get_localities of Municipality, up to and including
\* their get_object
on_get_streets(d, rq) ==
    LET instance == get_object(d, rq.resource, rq.identifier, rq.id)
    IN  IF ~Exists(instance) THEN HTTPNotFound(d)
        ELSE Goes(d, "count", Held(instance, 0))

on_get_localities(d, rq) ==
    LET instance == get_object(d, rq.resource, rq.identifier, rq.id)
    IN  IF ~Exists(instance) THEN HTTPNotFound(d)
        ELSE Goes(d, "count", Held(instance, 0))

\* on_get_positions of Housenumber: its get_object, then collection called
\* without req and resp
on_get_positions(d, rq) ==
    LET instance == get_object(d, rq.resource, rq.identifier, rq.id)
    IN  IF ~Exists(instance) THEN HTTPNotFound(d) ELSE ServerError(d)

\* on_get_housenumbers of Locality and Street: the same
on_get_housenumbers(d, rq) ==
    LET instance == get_object(d, rq.resource, rq.identifier, rq.id)
    IN  IF ~Exists(instance) THEN HTTPNotFound(d) ELSE ServerError(d)

\* view(req, resp, **kwargs) for the route of the request
view(d, rq) ==
    CASE rq.route = "versions"     -> on_get_versions(d, rq)
      [] rq.route = "streets"      -> on_get_streets(d, rq)
      [] rq.route = "localities"   -> on_get_localities(d, rq)
      [] rq.route = "positions"    -> on_get_positions(d, rq)
      [] rq.route = "housenumbers" -> on_get_housenumbers(d, rq)

\* the queryset the view of the request hands to collection
queryset(d, rq, instance) ==
    CASE rq.route = "versions"   -> versions(d, rq.resource, instance)
      [] rq.route = "streets"    -> street_set(d, instance)
      [] rq.route = "localities" -> locality_set(d, instance)

\* the views on_get_<route> of the resource classes
HasView(resource, route) ==
    route \in
        CASE resource = "housenumber"  -> {"versions", "positions"}
          [] resource = "municipality" -> {"versions", "streets", "localities"}
          [] resource \in {"locality", "street"} -> {"versions", "housenumbers"}
          [] OTHER                     -> {"versions"}

\* on_get up to and including its get_object
on_get(d, rq) ==
    IF ~Falsy(Get(rq, "identifier"))
          /\ rq.identifier \notin identifiers(rq.resource) \cup {"id"}
    THEN HTTPBadRequest(d)
    \* get_object() called without identifier or id
    ELSE IF "identifier" \notin DOMAIN rq \/ "id" \notin DOMAIN rq
    THEN ServerError(d)
    ELSE IF ~HasColumn(d, rq.resource, rq.identifier) THEN ServerError(d)
    ELSE LET instance == get_object(d, rq.resource, rq.identifier, rq.id)
         IN  IF ~Exists(instance) THEN HTTPNotFound(d)
             ELSE IF "route" \notin DOMAIN rq THEN Response(d, 200, instance)
             ELSE IF ~HasView(rq.resource, rq.route) THEN HTTPBadRequest(d)
             ELSE Goes(d, "view", Held(instance, 0))

\* on_post up to and including its first store call: get_object where the
\* route carries an id, save_object where it does not
on_post(d, rq) ==
    IF "id" \notin DOMAIN rq
    THEN save_object(d, rq.resource, rq.data, NoInstance, FALSE, None, None)
    ELSE IF ~HasColumn(d, rq.resource, rq.identifier) THEN ServerError(d)
    ELSE LET instance == get_object(d, rq.resource, rq.identifier, rq.id)
         IN  IF ~Exists(instance) THEN HTTPNotFound(d)
             ELSE Goes(d, "save", Held(instance, 0))

\* on_put up to and including its get_object
on_put(d, rq) ==
    \* get_object() called without identifier and id
    IF "id" \notin DOMAIN rq THEN ServerError(d)
    ELSE IF ~HasColumn(d, rq.resource, rq.identifier) THEN ServerError(d)
    ELSE LET instance == get_object(d, rq.resource, rq.identifier, rq.id)
         IN  IF ~Exists(instance) THEN HTTPNotFound(d)
             ELSE Goes(d, "save", Held(instance, 0))

\* the responder of the route for the method of the request
Handle(d, rq) ==
    CASE rq.method = "GET"  -> on_get(d, rq)
      [] rq.method = "POST" -> on_post(d, rq)
      [] rq.method = "PUT"  -> on_put(d, rq)

\* the piece of the responder that runs at a stage, on the store as it is
\* then
Proceed(d, rq, stage, kept) ==
    CASE stage = "read"   -> Handle(d, rq)
      [] stage = "save"   -> save_object(d, rq.resource, rq.data, kept.instance,
                                         TRUE, rq.identifier, rq.id)
      [] stage = "reread" -> save_object_conflict(d, rq)
      [] stage = "view"   -> view(d, rq)
      [] stage = "load"   -> load_version(d, rq.resource, kept.instance, rq.route_id)
      [] stage = "count"  -> collection_count(d, rq.params,
                                              queryset(d, rq, kept.instance),
                                              kept.instance)
      [] stage = "slice"  -> collection(d, rq.params,
                                        queryset(d, rq, kept.instance), kept.count)

----------------------------------------------------------------------------
(* The rows an import file is drawn from *)

RowMunicipality ==
    [type |-> "municipality", insee |-> "75100", name |-> "Paris", source |-> "X"]

RowMunicipalityNoSource ==
    [type |-> "municipality", insee |-> "75100", name |-> "Paris"]

RowMunicipalityNoName ==
    [type |-> "municipality", insee |-> "75101", source |-> "X"]

GroupRow(raw, name, source) ==
    [type |-> "group", name |-> name, group |-> "way", source |-> source]
        @@ ("group:fantoir" :> raw) @@ ("municipality:insee" :> "75100")

RowGroupX == GroupRow("75100A0001", "Rue A", "X")

RowGroupY == GroupRow("75100A0001", "Rue B", "Y")

RowGroupNoName ==
    [type |-> "group", group |-> "way", source |-> "Z"]
        @@ ("group:fantoir" :> "75100A0001") @@ ("municipality:insee" :> "75100")

RowGroupNoFantoir ==
    [type |-> "group", name |-> "Rue A", group |-> "way", source |-> "X"]
        @@ ("municipality:insee" :> "75100")

PostCodeRow(code, name, insee) ==
    [type |-> "postcode", postcode |-> code, name |-> name]
        @@ ("municipality:insee" :> insee)

RowPostCode == PostCodeRow("75001", "Paris", "75100")

RowPostCodeNoMunicipality == PostCodeRow("99001", "Nulle Part", "99999")

HouseNumberRow(raw, numero, source) ==
    [type |-> "housenumber", numero |-> numero, ordinal |-> "", source |-> source]
        @@ ("group:fantoir" :> raw)

RowHouseNumber == HouseNumberRow("75100A0001", "12", "X")

RowHouseNumberAgain == HouseNumberRow("75100A0001", "12", "Y")

RowHouseNumberOrphan == HouseNumberRow("75100A0002", "1", "X")

RowHouseNumberNoFantoir ==
    [type |-> "housenumber", numero |-> "12", ordinal |-> "", source |-> "X"]

PositionRow(cia, kind, source, geometry) ==
    [type |-> "position", kind |-> kind, source |-> source, geometry |-> geometry]
        @@ ("housenumber:cia" :> cia)

RowPosition == PositionRow("75100_0001K_12", "entrance", "X", "P1")

RowPositionMoved == PositionRow("75100_0001K_12", "entrance", "X", "P2")

RowPositionOtherSource == PositionRow("75100_0001K_12", "entrance", "Y", "P1")

RowPositionOrphan == PositionRow("75100_0009K_1", "entrance", "X", "P1")

RowPositionNoGeometry ==
    [type |-> "position", kind |-> "entrance", source |-> "X"]
        @@ ("housenumber:cia" :> "75100_0001K_12")

\* no row: the worker is idle
NoRow == [type |-> "<none>"]

RowNoType == [name |-> "Paris", source |-> "X"]

RowEmptyType == [type |-> "", name |-> "Paris", source |-> "X"]

\* the row a worker has lost the save of, with the entity it had read
Lost(row, p) ==
    [row |-> row, model |-> p.model, id |-> p.instance.id,
     version |-> IF Exists(p.instance) THEN p.instance.version ELSE 0]

\* the worker has lost no save
NoLost == [row |-> NoRow, model |-> "none", id |-> 0, version |-> 0]

Rows ==
    {RowMunicipality, RowMunicipalityNoSource, RowMunicipalityNoName,
     RowGroupX, RowGroupY, RowGroupNoName, RowGroupNoFantoir,
     RowPostCode, RowPostCodeNoMunicipality,
     RowHouseNumber, RowHouseNumberAgain, RowHouseNumberOrphan, RowHouseNumberNoFantoir,
     RowPosition, RowPositionMoved, RowPositionOtherSource, RowPositionOrphan,
     RowPositionNoGeometry, RowNoType, RowEmptyType}

\* the rows that save again, with the next version, an entity the earlier
\* run has stored
WriterRows ==
    {RowGroupY, RowHouseNumber, RowPosition}

\* raw 'group:fantoir' values: of 9 and of 10 characters, and shorter ones
RawCodes ==
    {"751000001", "751001001", "75100A0001", "75100A0002", "75100A1", "7510"}

\* an import file of Group and HouseNumber rows over the raw codes
CodecRows ==
    {GroupRow(raw, "Rue A", "X") : raw \in RawCodes}
        \cup {HouseNumberRow(raw, "12", "X") : raw \in RawCodes}

\* PUT /housenumber/cia:75100_0001_12 with the version the client proposes
PutHouseNumber(v) ==
    [method |-> "PUT", resource |-> "housenumber", identifier |-> "cia",
     id |-> "75100_0001_12", data |-> HouseNumberData("12", None, "751000001", v)]

\* PUT /position/id:1 with the version the client proposes, and another source
PutPosition(v) ==
    [method |-> "PUT", resource |-> "position", identifier |-> "id", id |-> 1,
     data |-> [id |-> 0, kind |-> "entrance", source |-> "Y", housenumber |-> 1,
               center |-> "P3", positioning |-> PositionOTHER, version |-> v]]

\* PUT /housenumber/cia:75100_0001_12 that changes the number, and with it
\* the cia
PutHouseNumberRenumbered(v) ==
    [method |-> "PUT", resource |-> "housenumber", identifier |-> "cia",
     id |-> "75100_0001_12", data |-> HouseNumberData("14", None, "751000001", v)]

\* the requests a client sends when it proposes version v
Requests(v) == <<PutHouseNumber(v), PutHouseNumberRenumbered(v)>>

\* PUT /housenumber/number:12, a column that is no identifier of the resource
PutHouseNumberByNumber(v) ==
    [method |-> "PUT", resource |-> "housenumber", identifier |-> "number",
     id |-> "12", data |-> HouseNumberData("12", None, "751000001", v)]

\* PUT /position/id:1 with no center
PutPositionNoCenter(v) ==
    [method |-> "PUT", resource |-> "position", identifier |-> "id", id |-> 1,
     data |-> [id |-> 0, kind |-> "entrance", source |-> "X", housenumber |-> 1,
               center |-> None, positioning |-> PositionOTHER, version |-> v]]

\* POST /housenumber/cia:75100_0001_12
PostHouseNumber(v) ==
    [method |-> "POST", resource |-> "housenumber", identifier |-> "cia",
     id |-> "75100_0001_12", data |-> HouseNumberData("12", None, "751000001", v)]

\* POST /housenumber/number:12
PostHouseNumberByNumber(v) ==
    [method |-> "POST", resource |-> "housenumber", identifier |-> "number",
     id |-> "12", data |-> HouseNumberData("12", None, "751000001", v)]

\* POST /housenumber: a new house number, with its number or without
PostNewHouseNumber(number) ==
    [method |-> "POST", resource |-> "housenumber",
     data |-> HouseNumberData(number, None, "751000001", 1)]

\* GET /housenumber/cia:75100_0001_12
GetHouseNumber(params) ==
    [method |-> "GET", resource |-> "housenumber", identifier |-> "cia",
     id |-> "75100_0001_12", params |-> params]

\* GET /housenumber/number:12
GetHouseNumberByNumber(params) ==
    [method |-> "GET", resource |-> "housenumber", identifier |-> "number",
     id |-> "12", params |-> params]

\* GET /housenumber/:12, the identifier empty
GetHouseNumberNoIdentifier(params) ==
    [method |-> "GET", resource |-> "housenumber", identifier |-> "",
     id |-> "12", params |-> params]

\* GET /housenumber/cia:75100_0001_12/<route>
GetHouseNumberRoute(route, params) ==
    [method |-> "GET", resource |-> "housenumber", identifier |-> "cia",
     id |-> "75100_0001_12", route |-> route, params |-> params]

\* GET /municipality/insee:75100/streets
GetMunicipalityStreets(params) ==
    [method |-> "GET", resource |-> "municipality", identifier |-> "insee",
     id |-> "75100", route |-> "streets", params |-> params]

\* a query string without limit and offset
NoParams == [format |-> "json"]

\* GET /housenumber/cia:75100_0001_12/versions/<route_id>
GetHouseNumberVersion(route_id) ==
    [method |-> "GET", resource |-> "housenumber", identifier |-> "cia",
     id |-> "75100_0001_12", route |-> "versions", route_id |-> route_id,
     params |-> NoParams]

\* GET /<resource>/fantoir:<id>, the resource being locality or street
GetGroup(resource, id) ==
    [method |-> "GET", resource |-> resource, identifier |-> "fantoir",
     id |-> id, params |-> NoParams]

\* GET /<resource>/id:1/<route>
GetGroupRoute(resource, route) ==
    [method |-> "GET", resource |-> resource, identifier |-> "id", id |-> 1,
     route |-> route, params |-> NoParams]

\* the query string of a listing request: limit and offset, each optional.
\* The limits are "2", "150", "-1", "abc" and "1" between an em space and an
\* ideographic space
Limits == {<<50>>, <<49, 53, 48>>, <<45, 49>>, <<97, 98, 99>>, <<8195, 49, 12288>>}

\* the offsets are "1" and "x"
Offsets == {<<49>>, <<120>>}

ListParams ==
    {NoParams}
        \cup {NoParams @@ ("limit" :> l) : l \in Limits}
        \cup {NoParams @@ ("offset" :> o) : o \in Offsets}
        \cup {NoParams @@ ("limit" :> <<50>>) @@ ("offset" :> o) : o \in Offsets}

\* the saves of a client that proposes version v
ClientRequests(v) == <<PutHouseNumber(v), PutPosition(v), PostHouseNumber(v)>>

\* its other requests, with the query string params
PlainRequests(params) ==
    <<PutHouseNumberByNumber(2), PostHouseNumberByNumber(2),
      PutPositionNoCenter(2),
      PostNewHouseNumber("14"), PostNewHouseNumber(None),
      GetHouseNumber(params), GetHouseNumberByNumber(params),
      GetHouseNumberNoIdentifier(params),
      GetHouseNumberRoute("positions", params),
      GetHouseNumberRoute("nowhere", params),
      GetMunicipalityStreets(params),
      GetHouseNumberVersion(<<49>>), GetHouseNumberVersion(<<57>>),
      GetGroup("locality", "751000001"), GetGroup("street", "nope"),
      GetGroupRoute("locality", "housenumbers")>>

\* an earlier import run, in dependency order
SeedRows == <<RowMunicipality, RowGroupX, RowPostCode, RowHouseNumber, RowPosition>>

RECURSIVE Seeded(_)
\* the store after the first k rows of the earlier run
Seeded(k) == IF k = 0 THEN EmptyDb ELSE Import(Seeded(k - 1), SeedRows[k])

----------------------------------------------------------------------------
(* helpers.batch: the rows are handed to the workers of the pool, each     *)
(* process_row call in its own session                                     *)

Init ==
    /\ db \in {Seeded(k) : k \in 0..Len(SeedRows)}
    /\ pc = [w \in Workers |-> "idle"]
    /\ cur = [w \in Workers |-> NoRow]
    /\ pending = [w \in Workers |-> NoPending]
    /\ out = [w \in Workers |-> NoOutcome]
    /\ lost = [w \in Workers |-> NoLost]
    /\ fed = 0
    /\ req = [c \in Clients |-> [method |-> "none"]]
    /\ resp = [c \in Clients |-> [status |-> 0]]
    /\ hpc = [c \in Clients |-> "idle"]
    /\ held = [c \in Clients |-> NoHeld]

\* the batch hands the next row of the file to an idle worker
Dispatch(w) ==
    /\ pc[w] = "idle"
    /\ fed < MaxRows
    /\ \E row \in Rows :
         /\ cur' = [cur EXCEPT ![w] = row]
         /\ lost' = [lost EXCEPT ![w] = IF row = lost[w].row THEN lost[w] ELSE NoLost]
    /\ pc' = [pc EXCEPT ![w] = "lookup"]
    /\ out' = [out EXCEPT ![w] = NoOutcome]
    /\ fed' = fed + 1
    /\ UNCHANGED <<db, pending, req, resp, hpc, held>>

\* the version a handler proposes stays within the bound
WithinBound(b) ==
    (b.next = "save" /\ "version" \in DOMAIN b.pend.data)
        => b.pend.data.version <= MaxVersion

\* process_row up to and including the handler's first read of the store
Lookup(w) ==
    /\ pc[w] = "lookup"
    /\ LET b == process_row(cur[w], db)
       IN  /\ WithinBound(b)
           /\ pc' = [pc EXCEPT ![w] = b.next]
           /\ cur' = [cur EXCEPT ![w] = IF b.done THEN NoRow ELSE cur[w]]
           /\ pending' = [pending EXCEPT ![w] = b.pend]
           /\ out' = [out EXCEPT ![w] = b.out]
    /\ UNCHANGED <<db, lost, fed, req, resp, hpc, held>>

\* process_position from its second read of the store, Position.first, up to
\* the validator
Find(w) ==
    /\ pc[w] = "find"
    /\ LET b == process_row_find(cur[w], pending[w], db)
       IN  /\ WithinBound(b)
           /\ pc' = [pc EXCEPT ![w] = b.next]
           /\ pending' = [pending EXCEPT ![w] = b.pend]
    /\ UNCHANGED <<db, cur, out, lost, fed, req, resp, hpc, held>>

\* the rest of process_row: validator, save, report
Finish(w) ==
    /\ pc[w] = "save"
    /\ LET r == process_row_end(pending[w], db)
       IN  /\ db' = r.db
           /\ out' = [out EXCEPT ![w] = r.out]
           /\ lost' = [lost EXCEPT ![w] = IF r.out = Raise("ForcedVersionError")
                                          THEN Lost(cur[w], pending[w])
                                          ELSE lost[w]]
    /\ pc' = [pc EXCEPT ![w] = "idle"]
    /\ cur' = [cur EXCEPT ![w] = NoRow]
    /\ pending' = [pending EXCEPT ![w] = NoPending]
    /\ UNCHANGED <<fed, req, resp, hpc, held>>

Step(w) == Dispatch(w) \/ Lookup(w) \/ Find(w) \/ Finish(w)

\* the request rq of client c reaches its responder
Receive(c, rq) ==
    /\ req' = [req EXCEPT ![c] = rq]
    /\ resp' = [resp EXCEPT ![c] = [status |-> 0]]
    /\ hpc' = [hpc EXCEPT ![c] = "read"]
    /\ held' = [held EXCEPT ![c] = NoHeld]
    /\ UNCHANGED <<db, pc, cur, pending, out, lost>>

\* the responder of client c runs up to and including its next store call
Serve(c) ==
    /\ hpc[c] # "idle"
    /\ LET r == Proceed(db, req[c], hpc[c], held[c])
       IN  /\ db' = r.db
           /\ resp' = [resp EXCEPT ![c] = r.resp]
           /\ hpc' = [hpc EXCEPT ![c] = r.pc]
           /\ held' = [held EXCEPT ![c] = r.held]
    /\ UNCHANGED <<req, fed, pc, cur, pending, out, lost>>

\* one PUT of client c, sent while the import runs, with any version
Http(c) ==
    /\ hpc[c] = "idle"
    /\ fed < MaxRows
    /\ \E v \in 1..MaxVersion : \E i \in 1..Len(Requests(v)) :
         Receive(c, Requests(v)[i])
    /\ fed' = fed + 1

\* the batch hands the next row of a file of such rows to an idle worker
DispatchWriter(w) ==
    /\ pc[w] = "idle"
    /\ fed < MaxRows
    /\ \E row \in WriterRows :
         /\ cur' = [cur EXCEPT ![w] = row]
         /\ lost' = [lost EXCEPT ![w] = IF row = lost[w].row THEN lost[w] ELSE NoLost]
    /\ pc' = [pc EXCEPT ![w] = "lookup"]
    /\ out' = [out EXCEPT ![w] = NoOutcome]
    /\ fed' = fed + 1
    /\ UNCHANGED <<db, pending, req, resp, hpc, held>>

\* the row whose save worker w has just lost is run again
Retry(w) ==
    /\ pc[w] = "idle"
    /\ out[w] = Raise("ForcedVersionError")
    /\ cur' = [cur EXCEPT ![w] = lost[w].row]
    /\ pc' = [pc EXCEPT ![w] = "lookup"]
    /\ out' = [out EXCEPT ![w] = NoOutcome]
    /\ UNCHANGED <<db, pending, lost, fed, req, resp, hpc, held>>

\* the writers of the store: two import workers and two HTTP clients
Next ==
    \/ \E w \in Workers :
         DispatchWriter(w) \/ Retry(w) \/ Lookup(w) \/ Find(w) \/ Finish(w)
    \/ \E c \in Clients : Http(c) \/ Serve(c)

\* one HTTP request of any method
Request(c) ==
    /\ hpc[c] = "idle"
    /\ fed < MaxRows
    /\ \/ \E v \in 1..MaxVersion : \E i \in 1..Len(ClientRequests(v)) :
            Receive(c, ClientRequests(v)[i])
       \/ \E i \in 1..Len(PlainRequests(NoParams)) :
            Receive(c, PlainRequests(NoParams)[i])
    /\ fed' = fed + 1

\* one listing request: GET /housenumber/cia:75100_0001_12/versions
Listing(c) ==
    /\ hpc[c] = "idle"
    /\ fed < MaxRows
    /\ \E params \in ListParams :
         Receive(c, GetHouseNumberRoute("versions", params))
    /\ fed' = fed + 1

\* the HTTP layer serving one client while one worker imports
NextHttp == Step("w1") \/ Request("c1") \/ Listing("c1") \/ Serve("c1")

SpecHttp == Init /\ [][NextHttp]_vars

\* the writers start on the store the earlier run has left
InitWriters == Init /\ db = Seeded(Len(SeedRows))

Spec == InitWriters /\ [][Next]_vars

\* the import alone, no HTTP request served meanwhile
NextImport == \E w \in Workers : Step(w)

SpecImport == Init /\ [][NextImport]_vars

\* the batch hands the next row of a file of raw codes to an idle worker
DispatchCodec(w) ==
    /\ pc[w] = "idle"
    /\ fed < MaxRows
    /\ \E row \in CodecRows :
         /\ cur' = [cur EXCEPT ![w] = row]
         /\ lost' = [lost EXCEPT ![w] = IF row = lost[w].row THEN lost[w] ELSE NoLost]
    /\ pc' = [pc EXCEPT ![w] = "lookup"]
    /\ out' = [out EXCEPT ![w] = NoOutcome]
    /\ fed' = fed + 1
    /\ UNCHANGED <<db, pending, req, resp, hpc, held>>

\* the import of a file of raw codes
NextCodec == \E w \in Workers : DispatchCodec(w) \/ Lookup(w) \/ Finish(w)

SpecCodec == Init /\ [][NextCodec]_vars

\* one worker: the rows are processed one after the other
NextSeq == Step("w1")

SpecSeq == Init /\ [][NextSeq]_vars

----------------------------------------------------------------------------
(* Properties *)

\* worker w is running again the row whose save it lost
retry(w) == cur[w] = lost[w].row

\* worker w runs process_row up to the handler's first read of the store
LookupStep(w) == pc[w] = "lookup" /\ pc'[w] # "lookup"

\* worker w runs process_position from its second read of the store
FindStep(w) == pc[w] = "find" /\ pc'[w] # "find"

\* worker w makes the last read of the store its handler makes before the
\* validator
ReadStep(w) == (LookupStep(w) /\ pc'[w] # "find") \/ FindStep(w)

\* worker w ends process_row after its validator and save
FinishStep(w) == pc[w] = "save" /\ pc'[w] = "idle"

IsRow(row, kind) == "type" \in DOMAIN row /\ row["type"] = kind

GroupOf(d, fantoir) == First({g \in Table(d.group) : g.fantoir = fantoir})

IsGroupRow(row) == IsRow(row, "group") /\ Get(row, "group:fantoir") # None

RowGroup(row, d) == GroupOf(d, deriveFantoir(row["group:fantoir"]))

IsPositionRow(row) == IsRow(row, "position") /\ Get(row, "housenumber:cia") # None

\* the stored HouseNumber a Position row names
RowParentOf(row, d) ==
    First({e \in Table(d.housenumber) :
              e.cia = stripControlChar(row["housenumber:cia"])})

\* the stored Position with the triple (housenumber, kind, source) of a row
RowPositionOf(row, d) ==
    LET hn == RowParentOf(row, d)
    IN  First({e \in Table(d.position) :
                  /\ e.housenumber = hn.id
                  /\ e.kind = Get(row, "kind")
                  /\ e.source = Get(row, "source")})

IsHouseNumberRow(row) == IsRow(row, "housenumber") /\ Get(row, "group:fantoir") # None

\* the stored HouseNumber a row is about
RowHouseNumberOf(row, d) ==
    LET raw == row["group:fantoir"]
    IN  First({e \in Table(d.housenumber) :
                  e.cia = Slice(raw, 0, 5) \o "_" \o Slice(raw, 6, 10)
                              \o "_" \o row["numero"]})

\* the responder of client c runs the piece of a stage
ServeStep(c, stage) == hpc[c] = stage /\ hpc'[c] # stage

\* the responder of client c runs save_object up to validator.save
SaveStep(c) ==
    \/ ServeStep(c, "save")
    \/ ServeStep(c, "read") /\ req[c].method = "POST" /\ "id" \notin DOMAIN req[c]

\* what a writer has written: an import worker by its outcome, an HTTP
\* client by the answer to its PUT or POST
Written(x) ==
    IF x \in Workers THEN out[x].saved
    ELSE IF req[x].method \in {"PUT", "POST"} /\ resp[x].status \in {200, 201}
    THEN [model |-> model(req[x].resource), id |-> resp[x].body.id,
          version |-> resp[x].body.version]
    ELSE NoSave

\* an import save of an existing row succeeds exactly when the stored version
\* is still the one the worker read, and then advances it by one; refused, it
\* raises ForcedVersionError and writes nothing
ImportSaveDecided(w) ==
    (/\ FinishStep(w)
     /\ Exists(pending[w].instance)
     /\ ValidatorErrors(db, pending[w].model, pending[w].data) = {})
    => LET p == pending[w]
           stored == db[p.model][p.instance.id]
       IN  IF stored.version = p.instance.version
           THEN /\ db'[p.model][p.instance.id].version = stored.version + 1
                /\ out'[w].level = "notice"
                /\ out'[w].saved = [model |-> p.model, id |-> p.instance.id,
                                    version |-> stored.version + 1]
           ELSE /\ out'[w] = Raise("ForcedVersionError")
                /\ db' = db

\* the same for save_object on the instance client c has read: 200 and the
\* version advanced by one, or ForcedVersionError and nothing written; the
\* entity is then read again by the identifier of the request, and the answer
\* is 409 with it, or 404 when that identifier finds it no more
HttpSaveDecided(c) ==
    /\ (/\ ServeStep(c, "save")
        /\ ValidatorErrors(db, req[c].resource, req[c].data) = {})
       => LET table == model(req[c].resource)
              stored == db[table][held[c].instance.id]
          IN  IF req[c].data.version = stored.version + 1
              THEN /\ resp'[c].status = 200
                   /\ db'[table][stored.id].version = stored.version + 1
                   /\ resp'[c].body = db'[table][stored.id]
              ELSE /\ hpc'[c] = "reread"
                   /\ db' = db
    /\ ServeStep(c, "reread")
       => LET now == get_object(db, req[c].resource, req[c].identifier, req[c].id)
          IN  /\ db' = db
              /\ resp'[c].status = IF Exists(now) THEN 409 ELSE 404
              /\ Exists(now) => resp'[c].body = now

\* no two writers have written the same version of the same row
NoDoubleWin ==
    \A x, y \in Workers \cup Clients :
        (x # y /\ Written(x) # NoSave) => Written(x) # Written(y)

\* worker w reads again the entity it lost the save of
SameEntity(w, p) == p.model = lost[w].model /\ p.instance.id = lost[w].id

\* the worker that lost a save and runs the same row again reads the entity
\* as stored now, at a later version than the one it had read, and proposes
\* the next one
RetryRereads(w) ==
    /\ pc'[w] = "save"
    /\ Exists(pending'[w].instance)
    /\ pending'[w].instance = db[pending'[w].model][pending'[w].instance.id]
    /\ pending'[w].data.version = pending'[w].instance.version + 1
    /\ SameEntity(w, pending'[w]) => pending'[w].instance.version > lost[w].version

\* the save of the retry goes through when no writer has saved since it read
\* the entity again: the version after the one it read is stored, N+2 or
\* later for the version N it had lost on
RetrySaves(w) ==
    (/\ FinishStep(w)
     /\ retry(w)
     /\ Exists(pending[w].instance)
     /\ ValidatorErrors(db, pending[w].model, pending[w].data) = {}
     /\ db[pending[w].model][pending[w].instance.id].version
            = pending[w].instance.version)
    => LET p == pending[w]
       IN  /\ out'[w].level = "notice"
           /\ out'[w].saved = [model |-> p.model, id |-> p.instance.id,
                               version |-> p.instance.version + 1]
           /\ db'[p.model][p.instance.id].version = p.instance.version + 1
           /\ SameEntity(w, p) =>
                /\ out'[w].saved.version >= lost[w].version + 2
                /\ p.instance.version = lost[w].version + 1
                       => out'[w].saved.version = lost[w].version + 2

\* the retried row is a Group row whose source the winner has stored
RetrySkipped(w) ==
    /\ IsGroupRow(cur[w])
    /\ Exists(RowGroup(cur[w], db))
    /\ RowGroup(cur[w], db).attributes.source = Get(cur[w], "source")
    /\ pc'[w] = "idle"
    /\ out'[w] = Report("warning", "Group already exist")

\* the stored Position of the housenumber worker w holds, with the kind and
\* source of its row
HeldPositionOf(w, d) ==
    First({e \in Table(d.position) :
              /\ e.housenumber = pending[w].housenumber.id
              /\ e.kind = Get(cur[w], "kind")
              /\ e.source = Get(cur[w], "source")})

\* the winner has changed the key the retried row is looked up by, the cia of
\* a HouseNumber or the kind and source of a Position: the row finds no
\* entity and is created anew
RetryCreates(w) ==
    /\ pc'[w] = "save"
    /\ ~Exists(pending'[w].instance)
    /\ pending'[w].data.version = 1
    /\ \/ IsHouseNumberRow(cur[w]) /\ ~Exists(RowHouseNumberOf(cur[w], db))
       \/ IsPositionRow(cur[w]) /\ pc[w] = "find" /\ ~Exists(HeldPositionOf(w, db))

\* the winner has changed the cia of the HouseNumber the retried Position row
\* names: the row finds no housenumber and ends with the error
RetryOrphaned(w) ==
    /\ IsPositionRow(cur[w])
    /\ ~Exists(RowParentOf(cur[w], db))
    /\ pc'[w] = "idle"
    /\ out'[w].level = "error"
    /\ out'[w].msg = "Position housenumber does not exist"

\* C1 as stated - of the writers of one entity that read version N, one saves
\* N+1 and the others get the conflict error and write nothing, and the loser
\* that runs its row again re-reads the version and then succeeds with N+2.
C1_LoserRetrySaves ==
    [][/\ \A w \in Workers : ImportSaveDecided(w)
       /\ \A c \in Clients : HttpSaveDecided(c)
       /\ NoDoubleWin'
       /\ \A w \in Workers :
            /\ (ReadStep(w) /\ retry(w)) => RetryRereads(w)
            /\ RetrySaves(w)]_vars

\* C1 - of the writers of one entity that read version N, one saves N+1 and
\* the others get the conflict error and write nothing (over HTTP the entity
\* is read again and answered with 409, or 404 when the request's identifier
\* finds it no more); the loser that runs its row again re-reads the version
\* and then succeeds with N+2, the version after the one it reads, unless a
\* further writer saves in between: except that a Group row whose source the
\* winner has stored is skipped as a duplicate, a HouseNumber or Position row
\* whose key the winner has changed is created anew at version 1, and a
\* Position row whose HouseNumber the winner has renumbered ends with an
\* error.
C1_ConflictingSaves ==
    [][/\ \A w \in Workers : ImportSaveDecided(w)
       /\ \A c \in Clients : HttpSaveDecided(c)
       /\ NoDoubleWin'
       /\ \A w \in Workers :
            /\ (ReadStep(w) /\ retry(w)) =>
                 \/ RetryRereads(w)
                 \/ RetrySkipped(w)
                 \/ RetryCreates(w)
                 \/ RetryOrphaned(w)
            /\ RetrySaves(w)]_vars

\* two clients have sent the same PUT body and a worker has read the same entity,
\* all three at version N: one client is answered 200 with N+1, the other has
\* been refused and stands before its second read, and the worker, refused
\* too, has run its row again and saved N+2
C1_Witness ==
    \E c1, c2 \in Clients : \E w \in Workers :
        /\ c1 # c2
        /\ resp[c1].status = 200
        /\ hpc[c2] = "reread"
        /\ req[c1].resource = req[c2].resource
        /\ req[c1].data = req[c2].data
        /\ held[c2].instance.id = resp[c1].body.id
        /\ held[c2].instance.version + 1 = resp[c1].body.version
        /\ lost[w].model = model(req[c1].resource)
        /\ lost[w].id = resp[c1].body.id
        /\ lost[w].version = held[c2].instance.version
        /\ pc[w] = "idle"
        /\ out[w].saved = [model |-> lost[w].model, id |-> lost[w].id,
                           version |-> lost[w].version + 2]

\* C2 - a Group row whose derived fantoir is stored with the row's source ends
\* process_group with the warning, without validator or save: the store and
\* the stored Group stay as they were.
C2_GroupDuplicateSkipped ==
    [][\A w \in Workers :
         (/\ LookupStep(w)
          /\ IsGroupRow(cur[w])
          /\ Exists(RowGroup(cur[w], db))
          /\ RowGroup(cur[w], db).attributes.source = Get(cur[w], "source"))
         => /\ pc'[w] = "idle"
            /\ pending'[w] = NoPending
            /\ out'[w] = Report("warning", "Group already exist")
            /\ db' = db]_vars

C2_Witness ==
    \E w \in Workers :
        /\ pc[w] = "idle"
        /\ out[w] = Report("warning", "Group already exist")
        /\ Exists(GroupOf(db, "751000001"))
        /\ GroupOf(db, "751000001").version = 1

\* C3 - a valid Group row whose fantoir is stored at version N with another
\* source leaves the Group at version N+1 with name, kind, municipality and
\* source of the row; a valid row whose fantoir is not stored creates the
\* Group at version 1.
C3_GroupUpdated ==
    [][\A w \in Workers :
         (/\ FinishStep(w)
          /\ pending[w].model = "group"
          /\ GroupErrors(db, pending[w].data) = {})
         => LET old == RowGroup(cur[w], db)
                new == RowGroup(cur[w], db')
            IN  /\ Exists(new)
                /\ Exists(old) => old.attributes.source # Get(cur[w], "source")
                /\ new.version = IF Exists(old) THEN old.version + 1 ELSE 1
                /\ new.name = Get(cur[w], "name")
                /\ new.kind = Get(cur[w], "group")
                /\ new.municipality = "insee:" \o Get(cur[w], "municipality:insee")
                /\ new.attributes.source = Get(cur[w], "source")
                /\ out'[w].level = "notice"]_vars

C3_Witness ==
    /\ pc["w1"] = "idle"
    /\ out["w1"].saved = [model |-> "group", id |-> 1, version |-> 2]
    /\ Exists(GroupOf(db, "751000001"))
    /\ GroupOf(db, "751000001").version = 2
    /\ GroupOf(db, "751000001").name = "Rue B"
    /\ GroupOf(db, "751000001").attributes.source = "Y"

\* C4 - a valid HouseNumber row is never skipped: it creates the HouseNumber
\* at version 1 when its cia is not stored and otherwise raises the stored
\* version by exactly 1, whatever its source, the fields being those of the
\* row each time.
C4_HouseNumberAlwaysUpdated ==
    [][\A w \in Workers :
         IsHouseNumberRow(cur[w]) =>
            LET old == RowHouseNumberOf(cur[w], db)
                new == RowHouseNumberOf(cur[w], db')
                next == IF Exists(old) THEN old.version + 1 ELSE 1
            IN  /\ LookupStep(w) =>
                      /\ pc'[w] = "save"
                      /\ pending'[w].data.version = next
                /\ (FinishStep(w) /\ HouseNumberErrors(db, pending[w].data) = {}) =>
                      /\ Exists(new)
                      /\ new.version = next
                      /\ new.number = cur[w]["numero"]
                      /\ new.ordinal = None
                      /\ new.parent = "fantoir:" \o deriveFantoir(cur[w]["group:fantoir"])
                      /\ Len(db'.housenumber) = Len(db.housenumber) + (IF Exists(old) THEN 0 ELSE 1)]_vars

C4_Witness ==
    /\ pc["w1"] = "idle"
    /\ fed = 2
    /\ out["w1"].msg = "HouseNumber Updated"
    /\ db.position = <<>>
    /\ Len(db.housenumber) = 1
    /\ db.housenumber[1].version = 2
    /\ db.housenumber[1].number = "12"

PostCodeCount(d, code, name) ==
    Cardinality({i \in 1..Len(d.postcode) :
                    d.postcode[i].code = code /\ d.postcode[i].name = name})

\* C5 - a PostCode row whose (code, name) pair is stored ends process_postcode
\* with the notice and changes nothing in the store; a pair that is not stored
\* goes on to the validator and, saved, is stored exactly once.
C5_PostCodeCreatedOnce ==
    [][\A w \in Workers :
         IsRow(cur[w], "postcode") =>
            LET code == Get(cur[w], "postcode")
                name == Get(cur[w], "name")
            IN  /\ LookupStep(w) =>
                      IF PostCodeCount(db, code, name) > 0
                      THEN /\ pc'[w] = "idle"
                           /\ pending'[w] = NoPending
                           /\ out'[w] = Report("notice", "PostCode already exists")
                           /\ db' = db
                      ELSE pc'[w] = "save"
                /\ FinishStep(w) =>
                      IF PostCodeErrors(db, pending[w].data) = {}
                      THEN /\ PostCodeCount(db', code, name) = 1
                           /\ Len(db'.postcode) = Len(db.postcode) + 1
                      ELSE db' = db]_vars

C5_Witness ==
    /\ pc["w1"] = "idle"
    /\ out["w1"] = Report("notice", "PostCode already exists")
    /\ PostCodeCount(db, "75001", "Paris") = 1

\* the positions after process_position has written the row
PositionsWritten(row, d) ==
    LET hn == RowParentOf(row, d)
        old == RowPositionOf(row, d)
    IN  IF Exists(old)
        THEN [d.position EXCEPT ![old.id] =
                 [@ EXCEPT !.version = old.version + 1,
                           !.center = Get(row, "geometry"),
                           !.positioning = PositionOTHER]]
        ELSE Append(d.position,
                    [id |-> Len(d.position) + 1, kind |-> Get(row, "kind"),
                     source |-> Get(row, "source"), housenumber |-> hn.id,
                     center |-> Get(row, "geometry"),
                     positioning |-> PositionOTHER, version |-> 1])

\* C6 as stated - every Position row whose HouseNumber resolves is written:
\* created at version 1 for a new triple, else that Position updated to its
\* version + 1 with the row's geometry and positioning OTHER, the other
\* Positions unchanged.
C6_EveryResolvedPositionWritten ==
    [][\A w \in Workers :
         (FinishStep(w) /\ pending[w].model = "position")
         => db'.position = PositionsWritten(cur[w], db)]_vars

\* C6 - every Position row whose HouseNumber resolves and whose fields pass
\* the validator is written: created at version 1 for a new triple, else that
\* Position updated to its version + 1 with the row's geometry and positioning
\* OTHER, the other Positions unchanged.
C6_ValidPositionWritten ==
    [][\A w \in Workers :
         /\ (LookupStep(w) /\ IsPositionRow(cur[w])
                /\ Exists(RowParentOf(cur[w], db)))
            => /\ pc'[w] = "find"
               /\ pending'[w].housenumber = RowParentOf(cur[w], db)
         /\ FindStep(w)
            => /\ pc'[w] = "save"
               /\ pending'[w].instance = RowPositionOf(cur[w], db)
         /\ (FinishStep(w) /\ pending[w].model = "position"
                /\ PositionErrors(db, pending[w].data) = {})
            => db'.position = PositionsWritten(cur[w], db)]_vars

C6_Witness ==
    /\ pc["w1"] = "idle"
    /\ out["w1"].msg = "Position updated"
    /\ Len(db.position) = 1
    /\ db.position[1].version = 2
    /\ db.position[1].center = "P2"

\* C7 - a row without a "type" key ends process_row with the error report
\* 'Missing "type" key', the store unchanged, and no exception.
C7_MissingTypeReported ==
    [][\A w \in Workers :
         (LookupStep(w) /\ "type" \notin DOMAIN cur[w])
         => /\ pc'[w] = "idle"
            /\ out'[w] = Report("error", "Missing \"type\" key")
            /\ db' = db]_vars

\* process_row returns for the row of worker w
RowEnded(w) == pc[w] # "idle" /\ pc'[w] = "idle"

\* C8 - every row handed to process_row ends with a report entry, a failed
\* row with an error entry: no row ends with an exception and no entry.
C8_FailuresReported ==
    [][\A w \in Workers :
         RowEnded(w) =>
            /\ out'[w].level \in {"error", "warning", "notice"}
            /\ out'[w].saved = NoSave => db' = db]_vars

VersionedModels == {"group", "housenumber", "position"}

\* C9 - the stored version of every Group, HouseNumber and Position is at
\* least 1, a step leaves it or raises it by exactly 1, and no version of an
\* identity is written twice.
C9_VersionsNeverReused ==
    [][/\ \A m \in VersionedModels : \A i \in 1..Len(db[m]) :
            /\ db[m][i].version >= 1
            /\ db'[m][i].version \in {db[m][i].version, db[m][i].version + 1}
       /\ \A e \in BagToSet(db'.versions) :
            e[1] \in VersionedModels => CopiesIn(e, db'.versions) = 1]_vars

\* C10 - the store never holds two PostCodes with the same (code, name) pair.
C10_OnePostCodePerPair ==
    \A i, j \in 1..Len(db.postcode) :
        (db.postcode[i].code = db.postcode[j].code
            /\ db.postcode[i].name = db.postcode[j].name) => i = j

\* C11 - a HouseNumber row whose validator runs while the Group of its derived
\* fantoir is not stored is reported as an error and creates nothing; a Group
\* stored later adds no HouseNumber, a HouseNumber appearing only where a
\* HouseNumber row is saved with its Group stored; the same row saved after
\* the Group is stored creates the HouseNumber at version 1.
C11_OrphanHouseNumberRejected ==
    [][/\ \A w \in Workers :
            (FinishStep(w) /\ pending[w].model = "housenumber") =>
                LET old == RowHouseNumberOf(cur[w], db)
                    new == RowHouseNumberOf(cur[w], db')
                IN  IF ~Exists(RowGroup(cur[w], db))
                    THEN /\ out'[w] = Report("error", "HouseNumber errors")
                         /\ db' = db
                    ELSE ~Exists(old) =>
                            /\ Exists(new)
                            /\ new.version = 1
                            /\ new.id = Len(db.housenumber) + 1
                            /\ out'[w].msg = "HouseNumber created"
       /\ \A w \in Workers :
            (FinishStep(w) /\ pending[w].model = "group") =>
                db'.housenumber = db.housenumber
       /\ Len(db'.housenumber) > Len(db.housenumber) =>
            \E w \in Workers :
                /\ FinishStep(w)
                /\ pending[w].model = "housenumber"
                /\ Exists(RowGroup(cur[w], db))]_vars

C11_Witness ==
    \E w1, w2 \in Workers :
        /\ out[w1] = Report("error", "HouseNumber errors")
        /\ out[w2].msg = "Created group"
        /\ pc[w1] = "idle" /\ pc[w2] = "idle"
        /\ fed = 2
        /\ Len(db.group) = 1
        /\ db.housenumber = <<>>

\* C12 - a Position row whose 'housenumber:cia', the character at index 10
\* removed, names no stored HouseNumber ends process_position with the error
\* report carrying that cia, before any validator or save, the store as it was.
C12_OrphanPositionRejected ==
    [][\A w \in Workers :
         (/\ LookupStep(w)
          /\ IsPositionRow(cur[w])
          /\ ~Exists(RowParentOf(cur[w], db)))
         => /\ pc'[w] = "idle"
            /\ pending'[w] = NoPending
            /\ out'[w] = ReportDetail("error", "Position housenumber does not exist",
                                      stripControlChar(cur[w]["housenumber:cia"]))
            /\ db' = db]_vars

C12_Witness ==
    \E w \in Workers :
        /\ pc[w] = "idle"
        /\ out[w] = ReportDetail("error", "Position housenumber does not exist",
                                 "75100_0009_1")
        /\ Len(db.housenumber) = 1

\* C13 - with Municipality 75100 stored, a valid Group row whose
\* 'group:fantoir' is "751000001" creates a Group stored with the fantoir
\* "75100" followed by "0001", at version 1.
C13_FantoirEndToEnd ==
    [][\A w \in Workers :
         (/\ FinishStep(w)
          /\ IsGroupRow(cur[w])
          /\ cur[w]["group:fantoir"] = "751000001"
          /\ GroupErrors(db, pending[w].data) = {}
          /\ out'[w].level = "notice")
         => /\ out'[w].saved.model = "group"
            /\ out'[w].saved.version = 1
            /\ db'.group[out'[w].saved.id].fantoir = "75100" \o "0001"]_vars

\* the row carries a raw fantoir
HasRawFantoir(row) == IsGroupRow(row) \/ IsHouseNumberRow(row)

\* a raw code of 9 or 10 characters
ValidRaw(raw) == Len(raw) \in {9, 10}

\* the fantoir the handler derived for the row it holds
DerivedOf(p) ==
    IF p.model = "group" THEN p.data.fantoir
    ELSE SliceFrom(p.data.parent, Len("fantoir:"))

\* C14 - of two rows with valid raw codes that process_group or
\* process_housenumber hold, the derived fantoirs are the same exactly when
\* the raw codes are the same.
C14_FantoirInjective ==
    \A w1, w2 \in Workers :
        (/\ pc[w1] = "save" /\ pc[w2] = "save"
         /\ HasRawFantoir(cur[w1]) /\ HasRawFantoir(cur[w2])
         /\ ValidRaw(cur[w1]["group:fantoir"])
         /\ ValidRaw(cur[w2]["group:fantoir"]))
        => (cur[w1]["group:fantoir"] = cur[w2]["group:fantoir"]
                <=> DerivedOf(pending[w1]) = DerivedOf(pending[w2]))

\* C15 - a Group or HouseNumber row whose raw 'group:fantoir' has fewer than
\* 9 characters ends with a FormatError, nothing looked up, created or
\* updated under a truncated key.
C15_ShortFantoirRejected ==
    [][\A w \in Workers :
         (/\ LookupStep(w)
          /\ HasRawFantoir(cur[w])
          /\ Len(cur[w]["group:fantoir"]) < 9)
         => /\ pc'[w] = "idle"
            /\ pending'[w] = NoPending
            /\ out'[w].level \in {"error", "raise"}
            /\ out'[w].msg = "FormatError"
            /\ db' = db]_vars

\* the instance get_object reads for a request on
\* '/<resource>/<identifier>:<id>'
RequestInstance(rq, d) == get_object(d, rq.resource, rq.identifier, rq.id)

C17_UnknownIdentifierRejected ==
    [][\A c \in Clients :
         (/\ ServeStep(c, "read")
          /\ "identifier" \in DOMAIN req[c]
          /\ req[c].identifier \notin identifiers(req[c].resource) \cup {"id"})
         => /\ hpc'[c] = "idle"
            /\ resp'[c].status >= 400
            /\ db' = db]_vars

\* the responder of a listing request of client c runs the rest of
\* collection
ListingStep(c) == ServeStep(c, "slice")

\* the value of a query parameter that is given and is an integer
IsInteger(params, key) == key \in DOMAIN params /\ int(params[key]).ok

\* C18 - a listing request with no 'limit' or with an integer 'limit' is
\* answered with a page of at most the effective limit of items, 20 with no
\* 'limit' and at most 100 otherwise, taken from position offset of the
\* listing, 0 when 'offset' is absent or no integer.
C18_PageBounded ==
    [][\A c \in Clients :
         (/\ ListingStep(c)
          /\ "limit" \in DOMAIN req[c].params => IsInteger(req[c].params, "limit"))
         => LET params == req[c].params
                listing == queryset(db, req[c], held[c].instance)
                limit == IF "limit" \in DOMAIN params
                         THEN Min(int(params["limit"]).value, 100) ELSE 20
                offset == IF IsInteger(params, "offset")
                          THEN int(params["offset"]).value ELSE 0
                page == resp'[c].body.collection
            IN  /\ resp'[c].status = 200
                /\ Len(page) <= Max(limit, 0)
                /\ \A i \in 1..Len(page) : page[i] = listing[offset + i]
                /\ db' = db]_vars

\* C19 - a validator that reports errors leaves the store as it was: an
\* import handler reports an error and saves nothing, save_object answers 422
\* with the fields in error.
C19_NoPartialWrites ==
    [][/\ \A w \in Workers :
            (/\ FinishStep(w)
             /\ ValidatorErrors(db, pending[w].model, pending[w].data) # {})
            => /\ db' = db
               /\ out'[w].level = "error"
               /\ out'[w].saved = NoSave
       /\ \A c \in Clients :
            (/\ SaveStep(c)
             /\ ValidatorErrors(db, req[c].resource, req[c].data) # {})
            => /\ hpc'[c] = "idle"
               /\ resp'[c].status = 422
               /\ resp'[c].errors = ValidatorErrors(db, req[c].resource, req[c].data)
               /\ db' = db]_vars

C19_Witness ==
    /\ pc["w1"] = "idle"
    /\ out["w1"] = Report("error", "Municipality errors")
    /\ hpc["c1"] = "idle"
    /\ req["c1"].method = "PUT"
    /\ resp["c1"].status = 422
    /\ resp["c1"].errors = {"center"}
    /\ Len(db.municipality) = 1
    /\ db.position[1].center = "P1"

\* the versions written so far for the Group of a fantoir
GroupVersionsWritten(d, fantoir) ==
    {e \in BagToSet(d.versions) : e[1] = "group" /\ e[2] = fantoir}

\* C20 - rows imported one after the other: a Group row is skipped exactly
\* when its fantoir is stored with the row's source, which is the source of
\* the last save of that Group; any other valid row is saved at the stored
\* version + 1, or at 1 for a new fantoir, so that the versions written for a
\* fantoir are 1, 2, 3, ... once each (A, B, A gives 1, 2, 3).
C20_GroupDedupLatestSource ==
    [][\A w \in Workers :
         IsGroupRow(cur[w]) =>
            LET old == RowGroup(cur[w], db)
                new == RowGroup(cur[w], db')
                fantoir == deriveFantoir(cur[w]["group:fantoir"])
                source == Get(cur[w], "source")
            IN  /\ LookupStep(w) =>
                      /\ db' = db
                      /\ out'[w] = Report("warning", "Group already exist")
                            <=> (Exists(old) /\ old.attributes.source = source)
                      /\ pc'[w] = "idle"
                            <=> (Exists(old) /\ old.attributes.source = source)
                /\ FinishStep(w) =>
                      IF GroupErrors(db, pending[w].data) = {}
                      THEN /\ new.version = IF Exists(old) THEN old.version + 1 ELSE 1
                           /\ new.attributes.source = source
                           /\ GroupVersionsWritten(db', fantoir) =
                                 {<<"group", fantoir, v>> : v \in 1..new.version}
                           /\ \A e \in GroupVersionsWritten(db', fantoir) :
                                 CopiesIn(e, db'.versions) = 1
                      ELSE db' = db]_vars

C20_Witness ==
    /\ pc["w1"] = "idle"
    /\ fed = 3
    /\ out["w1"].saved = [model |-> "group", id |-> 1, version |-> 3]
    /\ GroupOf(db, "751000001").attributes.source = "X"
    /\ GroupOf(db, "751000001").version = 3
    /\ db.postcode = <<>>

====
